---- MODULE Spec2Model ----
(***************************************************************************)
(* Model of the ffht crate (src/src/lib.rs): the safe wrapper around the   *)
(* FFHT transform engine.                                                   *)
(*                                                                          *)
(* Representation choices                                                   *)
(*  - A usize is the set of the positions of its one-bits (a subset of     *)
(*    0..UsizeBits-1), so that lengths up to 2^64-1 keep their width.      *)
(*  - A buffer is a record [len, elems, sym].  A buffer short enough to    *)
(*    enumerate carries its elements in elems (sym is empty).  A bulk      *)
(*    buffer carries no elements: its contents are the term sym, a token   *)
(*    for the original contents followed by one token per rewrite.         *)
(*  - Element values are small integers; on them f32 and f64 addition,     *)
(*    subtraction and scaling by a power of two are exact.                 *)
(*  - The transform engine (FFHT/fht.c, fast_copy.c) is reached through    *)
(*    the extern "C" declarations of lib.rs; its body is modelled from     *)
(*    the design document (sections 4.2 - 4.4).                            *)
(***************************************************************************)
EXTENDS Integers, Sequences, FiniteSets, TLC

\* ------------------------------------------------------------------ bounds
MaxLen == 4
MaxVal == 1
BlockLog == 1
MaxApply == 2

\* --------------------------------------------------------------- constants
UsizeBits == 64
MaxLogN == 30

VARIABLES ty, data, input, output, pre, op, ret, ffi, orig, applied, staged, live,
          vin, vout, threads, slot

vars == <<ty, data, input, output, pre, op, ret, ffi, orig, applied, staged, live,
          vin, vout, threads, slot>>

\* ------------------------------------------------------------- usize values
Pow2Int(k) == 2 ^ k

\* the usize holding the small natural number n
ToUsize(n) == {k \in 0..30 : (n \div Pow2Int(k)) % 2 = 1}

\* the usize 2^k
Pow2(k) == {k}

Zero == {}

SetMin(S) == CHOOSE m \in S : \A o \in S : m <= o

SetMax(S) == CHOOSE m \in S : \A o \in S : m >= o

\* usize::count_ones, usize::is_power_of_two, usize::trailing_zeros
count_ones(size) == Cardinality(size)
is_power_of_two(size) == count_ones(size) = 1
\* (a variant that counts the zeros from the other end, used to test C3)
leading_zeros(size) == IF size = Zero THEN UsizeBits ELSE UsizeBits - 1 - SetMax(size)
trailing_zeros(size) == IF size = Zero THEN UsizeBits ELSE SetMin(size)

\* ------------------------------------------------------------------ results
NoSize == {}
Ok == [kind |-> "Ok", size |-> NoSize, code |-> 0]
InvalidSize(size) == [kind |-> "InvalidSize", size |-> size, code |-> 0]
SizeTooLarge(size) == [kind |-> "SizeTooLarge", size |-> size, code |-> 0]
InternalError(code) == [kind |-> "InternalError", size |-> NoSize, code |-> code]
Panic == [kind |-> "Panic", size |-> NoSize, code |-> 0]
OutOfBounds == [kind |-> "OutOfBounds", size |-> NoSize, code |-> 0]
NoResult == [kind |-> "None", size |-> NoSize, code |-> 0]

\* ------------------------------------------------------------ validate_size
\* (a variant that joins the two rejection tests with "and", used to test C1)
validate_size_and(size) ==
    IF size = Zero /\ ~is_power_of_two(size)
    THEN [ok |-> FALSE, log_n |-> 0, err |-> InvalidSize(size)]
    ELSE LET log_n == trailing_zeros(size) IN
         IF log_n > MaxLogN
         THEN [ok |-> FALSE, log_n |-> 0, err |-> SizeTooLarge(size)]
         ELSE [ok |-> TRUE, log_n |-> log_n, err |-> Ok]

\* (a variant whose ceiling is one exponent too high, used to test C2)
validate_size_ceiling(size) ==
    IF size = Zero \/ ~is_power_of_two(size)
    THEN [ok |-> FALSE, log_n |-> 0, err |-> InvalidSize(size)]
    ELSE LET log_n == trailing_zeros(size) IN
         IF log_n > MaxLogN + 1
         THEN [ok |-> FALSE, log_n |-> 0, err |-> SizeTooLarge(size)]
         ELSE [ok |-> TRUE, log_n |-> log_n, err |-> Ok]

\* (a variant whose exponent is one short, used to test C8)
validate_size_short(size) ==
    IF size = Zero \/ ~is_power_of_two(size)
    THEN [ok |-> FALSE, log_n |-> 0, err |-> InvalidSize(size)]
    ELSE LET log_n == trailing_zeros(size) IN
         IF log_n > MaxLogN
         THEN [ok |-> FALSE, log_n |-> 0, err |-> SizeTooLarge(size)]
         ELSE [ok |-> TRUE, log_n |-> IF log_n > 0 THEN log_n - 1 ELSE 0, err |-> Ok]

validate_size(size) ==
    IF size = Zero \/ ~is_power_of_two(size)
    THEN [ok |-> FALSE, log_n |-> 0, err |-> InvalidSize(size)]
    ELSE LET log_n == trailing_zeros(size) IN
         IF log_n > MaxLogN
         THEN [ok |-> FALSE, log_n |-> 0, err |-> SizeTooLarge(size)]
         ELSE [ok |-> TRUE, log_n |-> log_n, err |-> Ok]

\* ------------------------------------------------------------------ buffers
ConcreteBuf(s) == [len |-> ToUsize(Len(s)), elems |-> s, sym |-> <<>>]
BulkBuf(size, name) == [len |-> size, elems |-> <<>>, sym |-> <<name>>]
IsConcrete(buf) == buf.sym = <<>>
EmptyBuf == ConcreteBuf(<<>>)

\* 2^log_n elements starting at the buffer's pointer lie inside the buffer
InBounds(buf, log_n) == \E k \in buf.len : k >= log_n

\* ------------------------------------------ transform engine (FFHT, via ffi)
\* Butterfly primitive: (x, y) -> (x + y, x - y)
Butterfly(x, y) == <<x + y, x - y>>

\* Vectorized kernel: all stages of one block fused, by the recursive identity
\* (two half-length transforms, then one butterfly pass across the halves).
RECURSIVE Kernel(_)
Kernel(blk) ==
    IF Len(blk) <= 1 THEN blk
    ELSE LET h == Len(blk) \div 2
             lo == Kernel(SubSeq(blk, 1, h))
             hi == Kernel(SubSeq(blk, h + 1, 2 * h))
         IN [i \in 1..(2 * h) |->
                IF i <= h THEN Butterfly(lo[i], hi[i])[1]
                          ELSE Butterfly(lo[i - h], hi[i - h])[2]]

\* Small-stride phase: the kernel over every block of 2^b of the first n elements.
SmallStridePhase(s, n, b) ==
    LET bs == Pow2Int(b) IN
    [i \in 1..Len(s) |->
        IF i > n THEN s[i]
        ELSE LET first == ((i - 1) \div bs) * bs + 1
             IN Kernel(SubSeq(s, first, first + bs - 1))[i - first + 1]]

\* One large-stride pass: the butterfly between blocks 2^st apart.
LargeStridePass(s, n, st) ==
    LET stride == Pow2Int(st) IN
    [i \in 1..Len(s) |->
        IF i > n THEN s[i]
        ELSE IF ((i - 1) % (2 * stride)) < stride
             THEN Butterfly(s[i], s[i + stride])[1]
             ELSE Butterfly(s[i - stride], s[i])[2]]

RECURSIVE LargeStridePasses(_, _, _, _)
LargeStridePasses(s, n, st, log_n) ==
    IF st >= log_n THEN s
    ELSE LargeStridePasses(LargeStridePass(s, n, st), n, st + 1, log_n)

\* Blocked transform driver on the first 2^log_n elements; log_n = 0 is the identity.
Driver(s, log_n) ==
    IF log_n = 0 THEN s
    ELSE LET n == Pow2Int(log_n)
             b == IF log_n < BlockLog THEN log_n ELSE BlockLog
         IN LargeStridePasses(SmallStridePhase(s, n, b), n, b, log_n)

\* The contents an anomaly may leave behind: pr names how far the engine got.
Partial(s, log_n, pr) ==
    IF log_n = 0 \/ pr \in {"none", "copy"} THEN s
    ELSE IF pr = "kernel"
         THEN SmallStridePhase(s, Pow2Int(log_n),
                               IF log_n < BlockLog THEN log_n ELSE BlockLog)
         ELSE Driver(s, log_n)

\* Buffer staging: the first n elements of src copied over those of dst.
FastCopy(src, dst, n) ==
    [i \in 1..Len(dst) |-> IF i <= n THEN src[i] ELSE dst[i]]

\* fht_float / fht_double: st is the status the engine ends with.
ffi_fht(buf, log_n, st, pr) ==
    IF ~InBounds(buf, log_n)
    THEN [buf |-> buf, status |-> st, oob |-> TRUE]
    ELSE IF IsConcrete(buf)
    THEN [buf |-> [buf EXCEPT !.elems = IF st = 0 THEN Driver(@, log_n)
                                        ELSE Partial(@, log_n, pr)],
          status |-> st, oob |-> FALSE]
    ELSE [buf |-> [buf EXCEPT !.sym = IF st = 0 THEN @ \o <<"H", ToString(log_n)>>
                                      ELSE @ \o <<"?">>],
          status |-> st, oob |-> FALSE]

\* fht_float_oop / fht_double_oop: stage the source into the destination, then
\* transform the destination in place; the source is only read.
ffi_fht_oop(src, dst, log_n, st, pr) ==
    IF ~InBounds(src, log_n) \/ ~InBounds(dst, log_n)
    THEN [input |-> src, output |-> dst, status |-> st, oob |-> TRUE]
    ELSE IF st # 0 /\ pr = "none"
    THEN [input |-> src, output |-> dst, status |-> st, oob |-> FALSE]
    ELSE IF IsConcrete(src) /\ IsConcrete(dst)
    THEN LET copied == FastCopy(src.elems, dst.elems, Pow2Int(log_n))
         IN [input |-> src,
             output |-> [dst EXCEPT !.elems = IF st = 0 THEN Driver(copied, log_n)
                                              ELSE Partial(copied, log_n, pr)],
             status |-> st, oob |-> FALSE]
    ELSE [input |-> src,
          output |-> [dst EXCEPT !.sym = IF st = 0
                                         THEN src.sym \o <<"H", ToString(log_n)>>
                                         ELSE src.sym \o <<"?">>],
          status |-> st, oob |-> FALSE]

InplaceFn(t) == IF t = "f32" THEN "fht_float" ELSE "fht_double"
OopFn(t) == IF t = "f32" THEN "fht_float_oop" ELSE "fht_double_oop"

\* (a variant that treats only a positive status as a failure, used to test C13)
Status_positive(r) ==
    IF r.oob THEN OutOfBounds
    ELSE IF r.status > 0 THEN InternalError(r.status) ELSE Ok

Status(r) ==
    IF r.oob THEN OutOfBounds
    ELSE IF r.status # 0 THEN InternalError(r.status) ELSE Ok

\* --------------------------------------------------------------- trait Fht
\* (a variant that hands the engine an exponent one short, used to test C7)
fht_inplace_short(t, d, st, pr) ==
    LET v == validate_size(d.len) IN
    IF ~v.ok THEN [ret |-> v.err, data |-> d, ffi |-> <<>>]
    ELSE LET w == IF v.log_n > 0 THEN v.log_n - 1 ELSE 0
             r == ffi_fht(d, w, st, pr)
         IN [ret |-> Status(r), data |-> r.buf,
             ffi |-> <<[fn |-> InplaceFn(t), log_n |-> w,
                        lens |-> <<d.len>>, status |-> r.status]>>]

\* <f32 as Fht>::fht_inplace, <f64 as Fht>::fht_inplace
fht_inplace(t, d, st, pr) ==
    LET v == validate_size(d.len) IN
    IF ~v.ok THEN [ret |-> v.err, data |-> d, ffi |-> <<>>]
    ELSE LET r == ffi_fht(d, v.log_n, st, pr)
         IN [ret |-> Status(r), data |-> r.buf,
             ffi |-> <<[fn |-> InplaceFn(t), log_n |-> v.log_n,
                        lens |-> <<d.len>>, status |-> r.status]>>]

\* (a variant without the length comparison, used to test C4)
fht_unchecked_len(t, i, o, st, pr) ==
    LET v == validate_size(i.len) IN
    IF ~v.ok THEN [ret |-> v.err, input |-> i, output |-> o, ffi |-> <<>>]
    ELSE LET r == ffi_fht_oop(i, o, v.log_n, st, pr)
         IN [ret |-> Status(r), input |-> r.input, output |-> r.output,
             ffi |-> <<[fn |-> OopFn(t), log_n |-> v.log_n,
                        lens |-> <<i.len, o.len>>, status |-> r.status]>>]

\* (a variant that runs the engine before it validates, used to test C5)
fht_validate_late(t, i, o, st, pr) ==
    IF i.len # o.len
    THEN [ret |-> InvalidSize(o.len), input |-> i, output |-> o, ffi |-> <<>>]
    ELSE LET r == ffi_fht_oop(i, o, trailing_zeros(i.len), st, pr)
             v == validate_size(i.len)
         IN [ret |-> IF ~v.ok THEN v.err ELSE Status(r),
             input |-> r.input, output |-> r.output,
             ffi |-> <<[fn |-> OopFn(t), log_n |-> trailing_zeros(i.len),
                        lens |-> <<i.len, o.len>>, status |-> r.status]>>]

\* (a variant that hands the engine the two buffers in the other order, used
\* to test C6)
fht_swapped(t, i, o, st, pr) ==
    IF i.len # o.len
    THEN [ret |-> InvalidSize(o.len), input |-> i, output |-> o, ffi |-> <<>>]
    ELSE LET v == validate_size(i.len) IN
         IF ~v.ok THEN [ret |-> v.err, input |-> i, output |-> o, ffi |-> <<>>]
         ELSE LET r == ffi_fht_oop(o, i, v.log_n, st, pr)
              IN [ret |-> Status(r), input |-> r.output, output |-> r.input,
                  ffi |-> <<[fn |-> OopFn(t), log_n |-> v.log_n,
                             lens |-> <<o.len, i.len>>, status |-> r.status]>>]

\* (a variant that runs the in-place engine on the destination without
\* staging the source, used to test C9)
fht_unstaged(t, i, o, st, pr) ==
    IF i.len # o.len
    THEN [ret |-> InvalidSize(o.len), input |-> i, output |-> o, ffi |-> <<>>]
    ELSE LET v == validate_size(i.len) IN
         IF ~v.ok THEN [ret |-> v.err, input |-> i, output |-> o, ffi |-> <<>>]
         ELSE LET r == ffi_fht(o, v.log_n, st, pr)
              IN [ret |-> Status(r), input |-> i, output |-> r.buf,
                  ffi |-> <<[fn |-> InplaceFn(t), log_n |-> v.log_n,
                             lens |-> <<o.len>>, status |-> r.status]>>]

\* (a variant that validates the source length before it compares the two
\* lengths, used to test C14)
fht_validate_first(t, i, o, st, pr) ==
    LET v == validate_size(i.len) IN
    IF ~v.ok THEN [ret |-> v.err, input |-> i, output |-> o, ffi |-> <<>>]
    ELSE IF i.len # o.len
    THEN [ret |-> InvalidSize(o.len), input |-> i, output |-> o, ffi |-> <<>>]
    ELSE LET r == ffi_fht_oop(i, o, v.log_n, st, pr)
         IN [ret |-> Status(r), input |-> r.input, output |-> r.output,
             ffi |-> <<[fn |-> OopFn(t), log_n |-> v.log_n,
                        lens |-> <<i.len, o.len>>, status |-> r.status]>>]

\* <f32 as Fht>::fht, <f64 as Fht>::fht
fht(t, i, o, st, pr) ==
    IF i.len # o.len
    THEN [ret |-> InvalidSize(o.len), input |-> i, output |-> o, ffi |-> <<>>]
    ELSE LET v == validate_size(i.len) IN
         IF ~v.ok THEN [ret |-> v.err, input |-> i, output |-> o, ffi |-> <<>>]
         ELSE LET r == ffi_fht_oop(i, o, v.log_n, st, pr)
              IN [ret |-> Status(r), input |-> r.input, output |-> r.output,
                  ffi |-> <<[fn |-> OopFn(t), log_n |-> v.log_n,
                             lens |-> <<i.len, o.len>>, status |-> r.status]>>]

\* ---------------------------------------------------------- trait FhtArray
\* ndarray's as_slice / as_slice_mut give Some exactly for a standard layout:
\* unit stride, or at most one element.
as_slice_is_some(a, stride) == stride = 1 \/ a.len \in {Zero, Pow2(0)}

\* Array1::zeros(len)
zeros(a) ==
    IF IsConcrete(a) THEN ConcreteBuf([i \in 1..Len(a.elems) |-> 0])
    ELSE BulkBuf(a.len, "zeros")

\* <Array1<f32> as FhtArray>::fht_inplace, and for f64, and for ArrayViewMut1
array_fht_inplace(t, d, stride, st, pr) ==
    IF ~as_slice_is_some(d, stride)
    THEN [ret |-> Panic, data |-> d, ffi |-> <<>>]
    ELSE fht_inplace(t, d, st, pr)

\* <Array1<f32> as FhtArray>::fht, and for f64: the array returned on Ok is
\* held in output; on Err the caller receives no array.
array_fht(t, i, o, stride, st, pr) ==
    IF ~as_slice_is_some(i, stride)
    THEN [ret |-> Panic, input |-> i, output |-> o, ffi |-> <<>>]
    ELSE LET r == fht(t, i, zeros(i), st, pr)
         IN IF r.ret = Ok THEN r ELSE [r EXCEPT !.output = o]

\* <ArrayViewMut1 as FhtArray>::fht: unimplemented!()
view_fht(t, i, o) == [ret |-> Panic, input |-> i, output |-> o, ffi |-> <<>>]

\* ------------------------------------------------------------ caller's data
Types == {"f32", "f64"}
Vals == (0 - MaxVal)..MaxVal

\* status the engine may end with (c_int), and how far it got when it is not 0
EngineStatus == {0, 1, -1}
Progress == {"none", "copy", "kernel"}
\* the ways one engine call may end: status 0, or an anomaly part of the way
Outcomes == {<<0, "none">>} \cup ((EngineStatus \ {0}) \X Progress)
Strides == {1, 2}

SeqsOfLen(n) == [1..n -> Vals]
Fill(n, v) == [i \in 1..n |-> v]

\* vectors the crate's tests and examples transform
TestVectors ==
    { <<1, -1, 1, -1, 1, -1, 1, -1>>, <<1, 2, 3, 4, 5, 6, 7, 8>>,
      <<1, 0, 1, 0, 1, 0, 1, 0>>, <<1, 2, 3, 4>>, <<1, 2, 3>> }

\* Every content over Vals for the lengths a transform accepts; constant
\* contents for the lengths it rejects.
SmallContents(n) ==
    IF \E k \in 0..n : n = Pow2Int(k) THEN SeqsOfLen(n) ELSE {Fill(n, v) : v \in Vals}

ConcreteBufs ==
    {ConcreteBuf(s) : s \in (UNION {SmallContents(n) : n \in 0..MaxLen}) \cup TestVectors}

\* a slice holds at most isize::MAX bytes
MaxSliceLog(t) == UsizeBits - 2 - (IF t = "f32" THEN 2 ELSE 3)

BulkSizes(t) ==
    {ToUsize(n) : n \in {MaxLen + 1, MaxLen + 2, MaxLen + 3, 100}}
    \cup {Pow2(k) : k \in 5..MaxSliceLog(t)}
    \cup {{0, 30}, {0, 31}, {30, 31}, {3, 40}}

BulkBufs(t, name) == {BulkBuf(size, name) : size \in BulkSizes(t)}

Buffers(t) == ConcreteBufs \cup BulkBufs(t, "x")

\* destinations of the same length as the source, whatever they held before
SameLenDest(i) ==
    IF IsConcrete(i)
    THEN {ConcreteBuf(Fill(Len(i.elems), v)) : v \in {0, MaxVal}}
    ELSE {BulkBuf(i.len, "y")}

\* source / destination pairs of different lengths
Mismatched(t) ==
    LET far == {ToUsize(100), Pow2(MaxLogN), Pow2(MaxLogN + 1), {0, MaxLogN + 1}}
        bs == {ConcreteBuf(Fill(n, MaxVal)) : n \in 0..MaxLen}
              \cup {BulkBuf(size, "x") : size \in far}
        ds == {ConcreteBuf(Fill(n, 0)) : n \in 0..MaxLen}
              \cup {BulkBuf(size, "y") : size \in far}
    IN {p \in bs \X ds : p[1].len # p[2].len}

Snapshot == [data |-> data, input |-> input, output |-> output]

Init ==
    /\ ty \in Types
    /\ \/ /\ data \in Buffers(ty)
          /\ input = EmptyBuf
          /\ output = EmptyBuf
       \/ /\ data = EmptyBuf
          /\ input \in Buffers(ty)
          /\ output \in SameLenDest(input)
       \/ /\ data = EmptyBuf
          /\ \E p \in Mismatched(ty) : input = p[1] /\ output = p[2]
    /\ pre = Snapshot
    /\ op = "none"
    /\ ret = NoResult
    /\ ffi = <<>>
    /\ orig = data
    /\ applied = 0
    /\ staged = 0
    /\ live = TRUE
    /\ vin = Zero
    /\ vout = [ok |-> FALSE, log_n |-> 0, err |-> NoResult]
    /\ threads = <<>>
    /\ slot = <<>>

Anomaly(r) == r.kind \in {"InternalError", "Panic", "OutOfBounds"}

\* what every in-place call does to the caller's state
InplaceCall(name, r) ==
    /\ live
    /\ applied < MaxApply
    /\ pre' = Snapshot
    /\ op' = name
    /\ ret' = r.ret
    /\ ffi' = r.ffi
    /\ data' = r.data
    /\ applied' = IF r.ret = Ok THEN applied + 1 ELSE applied
    /\ live' = ~Anomaly(r.ret)
    /\ UNCHANGED <<ty, input, output, orig, staged, vin, vout, threads, slot>>

\* what every out-of-place call does to the caller's state
OopCall(name, r) ==
    /\ live
    /\ staged < MaxApply
    /\ pre' = Snapshot
    /\ op' = name
    /\ ret' = r.ret
    /\ ffi' = r.ffi
    /\ input' = r.input
    /\ output' = r.output
    /\ staged' = IF r.ret = Ok THEN staged + 1 ELSE staged
    /\ live' = ~Anomaly(r.ret)
    /\ UNCHANGED <<ty, data, orig, applied, vin, vout, threads, slot>>

\* T::fht_inplace(&mut data)
CallFhtInplace ==
    \E o \in Outcomes :
        InplaceCall("Fht::fht_inplace", fht_inplace(ty, data, o[1], o[2]))

\* T::fht(&input, &mut output)
CallFht ==
    \E o \in Outcomes :
        OopCall("Fht::fht", fht(ty, input, output, o[1], o[2]))

\* Array1::fht_inplace on an array holding data
CallArrayFhtInplace ==
    \E stride \in Strides, o \in Outcomes :
        InplaceCall("Array1::fht_inplace", array_fht_inplace(ty, data, stride, o[1], o[2]))

\* output = Array1::fht on an array holding input
CallArrayFht ==
    \E stride \in Strides, o \in Outcomes :
        OopCall("Array1::fht", array_fht(ty, input, output, stride, o[1], o[2]))

\* ArrayViewMut1::fht_inplace on a view of data
CallViewFhtInplace ==
    \E stride \in Strides, o \in Outcomes :
        InplaceCall("ArrayViewMut1::fht_inplace",
                    array_fht_inplace(ty, data, stride, o[1], o[2]))

\* ArrayViewMut1::fht on a view of input
CallViewFht ==
    OopCall("ArrayViewMut1::fht", view_fht(ty, input, output))

Next ==
    \/ CallFhtInplace
    \/ CallFht
    \/ CallArrayFhtInplace
    \/ CallArrayFht
    \/ CallViewFhtInplace
    \/ CallViewFht

Spec == Init /\ [][Next]_vars

\* --------------------------------------------- validate_size on its own
SizesV ==
    {ToUsize(n) : n \in 0..100}
    \cup {Pow2(k) : k \in 0..(UsizeBits - 1)}
    \cup {{0, k} : k \in 1..(UsizeBits - 1)}
    \cup {0..(UsizeBits - 1)}

InitV ==
    /\ ty = "f32"
    /\ data = EmptyBuf
    /\ input = EmptyBuf
    /\ output = EmptyBuf
    /\ pre = Snapshot
    /\ op = "none"
    /\ ret = NoResult
    /\ ffi = <<>>
    /\ orig = data
    /\ applied = 0
    /\ staged = 0
    /\ live = TRUE
    /\ vin = Zero
    /\ vout = [ok |-> FALSE, log_n |-> 0, err |-> NoResult]
    /\ threads = <<>>
    /\ slot = <<>>

CallValidateSize ==
    \E size \in SizesV :
        /\ vin' = size
        /\ vout' = validate_size(size)
        /\ op' = "validate_size"
        /\ UNCHANGED <<ty, data, input, output, pre, ret, ffi, orig, applied,
                       staged, live, threads, slot>>

NextV == CallValidateSize

SpecV == InitV /\ [][NextV]_vars

\* ------------------------------------- concurrent calls on disjoint buffers
\* Two threads, each making one call on buffers it alone borrows (&mut [Self]
\* cannot alias).  A call is taken in steps: the wrapper validates and keeps
\* log_n in a local, calls the engine with it, the engine runs its phases one
\* at a time on the buffers it was handed, and the wrapper maps the status.
Threads == {1, 2}
ThreadType(t) == IF t = 1 THEN "f32" ELSE "f64"

\* (a variant that keeps log_n in one place for all calls, used to test C11)
LogNSlot_static(t) == 0

\* where a call keeps `let log_n`: a local of its own stack frame
LogNSlot(t) == t

JobBufs ==
    {ConcreteBuf(s) : s \in TestVectors \cup {<<>>, <<1>>, <<1, -1>>}}
    \cup {BulkBuf(Pow2(MaxLogN + 1), "x")}

JobFates == {<<0, "none">>, <<1, "kernel">>, <<-1, "copy">>}

Jobs ==
    {[mode |-> "inplace", src |-> EmptyBuf, buf |-> b, fate |-> f] :
        b \in JobBufs, f \in JobFates}
    \cup
    UNION {{[mode |-> "oop", src |-> b, buf |-> d, fate |-> f] :
                d \in {zeros(b), ConcreteBuf(<<MaxVal, MaxVal>>)}, f \in JobFates} :
           b \in JobBufs}

\* the phases the engine goes through for one call, given how it will end
EnginePhases(mode, log_n, fate) ==
    LET b == IF log_n < BlockLog THEN log_n ELSE BlockLog
        copy == IF mode = "oop" THEN <<[k |-> "copy", s |-> 0]>> ELSE <<>>
        kernel == IF log_n = 0 THEN <<>> ELSE <<[k |-> "kernel", s |-> b]>>
        passes == IF log_n = 0 THEN <<>>
                  ELSE [j \in 1..(log_n - b) |-> [k |-> "pass", s |-> b + j - 1]]
    IN IF fate[1] = 0 THEN copy \o kernel \o passes
       ELSE IF fate[2] = "none" THEN <<>>
       ELSE IF fate[2] = "copy" THEN copy
       ELSE copy \o kernel

\* one phase of the engine on the buffers of one call
ApplyPhase(ph, src, buf, log_n) ==
    LET n == Pow2Int(log_n) IN
    [buf EXCEPT !.elems =
        IF ph.k = "copy" THEN FastCopy(src.elems, @, n)
        ELSE IF ph.k = "kernel" THEN SmallStridePhase(@, n, ph.s)
        ELSE LargeStridePass(@, n, ph.s)]

InitC ==
    /\ ty = "f32"
    /\ data = EmptyBuf
    /\ input = EmptyBuf
    /\ output = EmptyBuf
    /\ pre = Snapshot
    /\ op = "none"
    /\ ret = NoResult
    /\ ffi = <<>>
    /\ orig = data
    /\ applied = 0
    /\ staged = 0
    /\ live = TRUE
    /\ vin = Zero
    /\ vout = [ok |-> FALSE, log_n |-> 0, err |-> NoResult]
    /\ \E j1 \in Jobs, j2 \in Jobs :
        threads = [t \in Threads |->
            LET j == IF t = 1 THEN j1 ELSE j2 IN
            [mode |-> j.mode, src |-> j.src, buf |-> j.buf, src0 |-> j.src,
             buf0 |-> j.buf, fate |-> j.fate, pc |-> "start", arg |-> 0,
             phases |-> <<>>, ret |-> NoResult]]
    /\ slot = [c \in {0} \cup Threads |-> 0]

Frame == UNCHANGED <<ty, data, input, output, pre, op, ret, ffi, orig, applied,
                     staged, live, vin, vout>>

\* the wrapper up to the engine call: the length comparison (out-of-place),
\* validate_size(n)?, let log_n
ThreadValidate(t) ==
    LET th == threads[t]
        v == validate_size(IF th.mode = "oop" THEN th.src.len ELSE th.buf.len)
    IN /\ th.pc = "start"
       /\ IF th.mode = "oop" /\ th.src.len # th.buf.len
          THEN /\ threads' = [threads EXCEPT ![t].pc = "done",
                                             ![t].ret = InvalidSize(th.buf.len)]
               /\ slot' = slot
          ELSE IF ~v.ok
          THEN /\ threads' = [threads EXCEPT ![t].pc = "done", ![t].ret = v.err]
               /\ slot' = slot
          ELSE /\ threads' = [threads EXCEPT ![t].pc = "call"]
               /\ slot' = [slot EXCEPT ![LogNSlot(t)] = v.log_n]
       /\ Frame

\* unsafe { ffi::fht_*(ptr, log_n as c_int) }: the engine is entered with the
\* value log_n holds now
ThreadEnter(t) ==
    LET th == threads[t]
        log_n == slot[LogNSlot(t)]
        inb == InBounds(th.buf, log_n) /\ (th.mode = "oop" => InBounds(th.src, log_n))
    IN /\ th.pc = "call"
       /\ threads' = IF inb
                     THEN [threads EXCEPT ![t].pc = "engine", ![t].arg = log_n,
                               ![t].phases = EnginePhases(th.mode, log_n, th.fate)]
                     ELSE [threads EXCEPT ![t].pc = "done", ![t].arg = log_n,
                               ![t].ret = OutOfBounds]
       /\ slot' = slot
       /\ Frame

\* the engine's next phase, on this call's buffers only
ThreadEngineStep(t) ==
    LET th == threads[t] IN
    /\ th.pc = "engine"
    /\ th.phases # <<>>
    /\ threads' = [threads EXCEPT
                      ![t].buf = ApplyPhase(Head(th.phases), th.src, th.buf, th.arg),
                      ![t].phases = Tail(th.phases)]
    /\ slot' = slot
    /\ Frame

\* the engine returns its status and the wrapper maps it to the result
ThreadReturn(t) ==
    LET th == threads[t] IN
    /\ th.pc = "engine"
    /\ th.phases = <<>>
    /\ threads' = [threads EXCEPT
                      ![t].pc = "done",
                      ![t].ret = Status([status |-> th.fate[1], oob |-> FALSE])]
    /\ slot' = slot
    /\ Frame

NextC ==
    \E t \in Threads :
        \/ ThreadValidate(t)
        \/ ThreadEnter(t)
        \/ ThreadEngineStep(t)
        \/ ThreadReturn(t)

SpecC == InitC /\ [][NextC]_vars

\* ------------------------------------------------------------------ claims
\* the usize is 2^k for some k
IsPowerOfTwoSize(size) == \E k \in 0..(UsizeBits - 1) : size = Pow2(k)

ValidationError(r) == r.kind \in {"InvalidSize", "SizeTooLarge"}

\* C1: for f32 and f64, fht_inplace on a buffer whose length n is 0 or is not
\* an exact power of two returns Err(InvalidSize(n)), carrying that length.
C1_InvalidSize ==
    (op = "Fht::fht_inplace" /\ ~IsPowerOfTwoSize(pre.data.len))
        => ret = InvalidSize(pre.data.len)

C1_Witness ==
    /\ op = "Fht::fht_inplace"
    /\ ty = "f64"
    /\ pre.data.len = ToUsize(100)
    /\ ret = InvalidSize(ToUsize(100))

\* C2: a length 2^k is rejected with SizeTooLarge(2^k) exactly when k exceeds
\* the ceiling of 30; every 2^k with k <= 30 passes validation, and 2^31 and
\* every larger power of two fails with SizeTooLarge, never InvalidSize.
C2_SizeTooLarge ==
    \A k \in 0..(UsizeBits - 1) :
        (\/ op = "Fht::fht_inplace" /\ pre.data.len = Pow2(k)
         \/ op = "Fht::fht" /\ pre.input.len = Pow2(k) /\ pre.output.len = Pow2(k))
            => IF k > 30 THEN ret = SizeTooLarge(Pow2(k))
                         ELSE ~ValidationError(ret)

C2_Witness ==
    /\ op = "Fht::fht_inplace"
    /\ pre.data.len = Pow2(31)
    /\ ret = SizeTooLarge(Pow2(31))

\* C3 as stated: validate_size(n) succeeds if and only if n > 0 and n is an
\* exact power of two, and on success returns log_n = trailing_zero_count(n).
C3_Original ==
    op = "validate_size" =>
        /\ vout.ok <=> (vin # Zero /\ IsPowerOfTwoSize(vin))
        /\ vout.ok => \E k \in 0..(UsizeBits - 1) : vin = Pow2(k) /\ vout.log_n = k

\* C3 amended: validate_size(n) succeeds if and only if n > 0, n is an exact
\* power of two and its trailing zero count is at most 30; on success it
\* returns log_n = trailing_zero_count(n).
C3_ValidateSize ==
    op = "validate_size" =>
        /\ vout.ok <=> \E k \in 0..30 : vin = Pow2(k)
        /\ vout.ok => \E k \in 0..(UsizeBits - 1) : vin = Pow2(k) /\ vout.log_n = k

C3_Witness ==
    /\ op = "validate_size"
    /\ vin = ToUsize(8)
    /\ vout.ok
    /\ vout.log_n = 3

\* C4: for f32 and f64, out-of-place fht(input, output) returns an InvalidSize
\* error whenever the two lengths differ.
C4_LengthMismatch ==
    (op = "Fht::fht" /\ pre.input.len # pre.output.len) => ret.kind = "InvalidSize"

C4_Witness ==
    /\ op = "Fht::fht"
    /\ ty = "f32"
    /\ pre.input.len = ToUsize(4)
    /\ pre.output.len = ToUsize(2)
    /\ ret.kind = "InvalidSize"

\* C5: whenever fht_inplace or fht returns InvalidSize or SizeTooLarge, every
\* caller buffer holds exactly the values it held before the call.
C5_UntouchedOnValidationError ==
    (op \in {"Fht::fht_inplace", "Fht::fht"} /\ ValidationError(ret))
        => /\ data = pre.data
           /\ input = pre.input
           /\ output = pre.output

C5_Witness ==
    /\ op = "Fht::fht"
    /\ ret = InvalidSize(ToUsize(3))
    /\ pre.input = ConcreteBuf(<<1, 2, 3>>)
    /\ input = pre.input
    /\ output = pre.output

\* C6: a successful out-of-place transform (Fht::fht, and FhtArray::fht on
\* Array1) leaves every element of the source unchanged; only the destination
\* is written.
C6_SourceUnchanged ==
    (op \in {"Fht::fht", "Array1::fht"} /\ ret = Ok)
        => input = pre.input /\ data = pre.data

C6_Witness ==
    /\ op = "Fht::fht"
    /\ ret = Ok
    /\ pre.input = ConcreteBuf(<<1, 2, 3, 4>>)
    /\ input = pre.input
    /\ output # pre.output

\* The Walsh-Hadamard transform as the glossary states it: stage s replaces
\* each pair (x[i], x[i XOR 2^s]) by (sum, difference), for s = 0 .. k-1
\* (indices from 0).
BitOf(i, s) == (i \div Pow2Int(s)) % 2
XorBit(i, s) == IF BitOf(i, s) = 0 THEN i + Pow2Int(s) ELSE i - Pow2Int(s)

StageRef(x, s) ==
    [i \in 1..Len(x) |->
        IF BitOf(i - 1, s) = 0
        THEN x[i] + x[XorBit(i - 1, s) + 1]
        ELSE x[XorBit(i - 1, s) + 1] - x[i]]

RECURSIVE StagesRef(_, _, _)
StagesRef(x, s, k) == IF s >= k THEN x ELSE StagesRef(StageRef(x, s), s + 1, k)

Log2Len(x) == CHOOSE k \in 0..Len(x) : Len(x) = Pow2Int(k)

\* C7: for every accepted length n = 2^k and every input x, a successful
\* fht_inplace leaves the buffer equal to the Walsh-Hadamard transform of x (k
\* butterfly stages); [1,1] becomes [2,0], [1,-1,1,-1] becomes [0,4,0,0], and
\* a buffer of length 1 is returned unchanged.
C7_Transform ==
    (op = "Fht::fht_inplace" /\ ret = Ok /\ IsConcrete(pre.data))
        => /\ \E k \in 0..Len(pre.data.elems) : Len(pre.data.elems) = Pow2Int(k)
           /\ data.len = pre.data.len
           /\ data.elems = StagesRef(pre.data.elems, 0, Log2Len(pre.data.elems))
           /\ pre.data.elems = <<1, 1>> => data.elems = <<2, 0>>
           /\ pre.data.elems = <<1, -1, 1, -1>> => data.elems = <<0, 4, 0, 0>>
           /\ Len(pre.data.elems) = 1 => data.elems = pre.data.elems

C7_Witness ==
    /\ op = "Fht::fht_inplace"
    /\ ret = Ok
    /\ pre.data.elems = <<1, -1, 1, -1>>
    /\ data.elems = <<0, 4, 0, 0>>

\* C8: applying fht_inplace twice (both calls returning Ok) to x of length
\* n = 2^log_n leaves n * x, so that dividing every element by n recovers x;
\* the engine applies no scaling.
C8_SelfInverse ==
    (applied = 2 /\ live /\ IsConcrete(orig))
        => /\ Len(data.elems) = Len(orig.elems)
           /\ \A i \in 1..Len(orig.elems) :
                /\ data.elems[i] % Len(orig.elems) = 0
                /\ data.elems[i] \div Len(orig.elems) = orig.elems[i]

C8_Witness ==
    /\ applied = 2
    /\ live
    /\ op = "Fht::fht_inplace"
    /\ orig.elems = <<1, 2, 3, 4, 5, 6, 7, 8>>
    /\ pre.data.elems = <<36, -4, -8, 0, -16, 0, 0, 0>>
    /\ data.elems = <<8, 16, 24, 32, 40, 48, 56, 64>>

\* C9: for every valid input x the destination produced by Fht::fht(x, y) (and
\* by FhtArray::fht on Array1) is identical to the buffer obtained by applying
\* fht_inplace to a copy of x, whatever the destination held before.
C9_OopEqualsInplace ==
    (op \in {"Fht::fht", "Array1::fht"} /\ ret = Ok)
        => output = fht_inplace(ty, pre.input, 0, "none").data

C9_Witness ==
    /\ op = "Fht::fht"
    /\ ret = Ok
    /\ pre.input.elems = <<1, -1, 1, -1>>
    /\ pre.output.elems = <<1, 1, 1, 1>>
    /\ output.elems = <<0, 4, 0, 0>>

\* C10: every public operation (Fht::fht_inplace, Fht::fht, and
\* FhtArray::fht_inplace / FhtArray::fht on Array1 and on ArrayViewMut1, for
\* f32 and f64) ends with an explicit Ok or Err value for every input, never
\* by aborting or panicking.
C10_ExplicitResult ==
    op \in {"Fht::fht_inplace", "Fht::fht", "Array1::fht_inplace", "Array1::fht",
            "ArrayViewMut1::fht_inplace", "ArrayViewMut1::fht"}
        => ret.kind \in {"Ok", "InvalidSize", "SizeTooLarge", "InternalError"}

PublicOps ==
    {"Fht::fht_inplace", "Fht::fht", "Array1::fht_inplace", "Array1::fht",
     "ArrayViewMut1::fht_inplace", "ArrayViewMut1::fht"}

\* C12: on every call path (in-place and out-of-place, f32 and f64) the size
\* is validated before the engine runs: the engine is invoked at most once per
\* call, never when validation failed, and always with an exponent log_n with
\* 0 <= log_n <= 30 and 2^log_n equal to the length of every buffer passed.
C12_ValidatedBeforeEngine ==
    op \in PublicOps =>
        /\ Len(ffi) <= 1
        /\ ValidationError(ret) => ffi = <<>>
        /\ \A c \in 1..Len(ffi) :
            /\ ffi[c].log_n \in 0..30
            /\ \A b \in 1..Len(ffi[c].lens) : ffi[c].lens[b] = Pow2(ffi[c].log_n)
            /\ ffi[c].fn = IF op \in {"Fht::fht", "Array1::fht"}
                           THEN OopFn(ty) ELSE InplaceFn(ty)
            /\ Len(ffi[c].lens) = IF op \in {"Fht::fht", "Array1::fht"} THEN 2 ELSE 1
            /\ ffi[c].lens[1] = IF op \in {"Fht::fht", "Array1::fht"}
                                THEN pre.input.len ELSE pre.data.len

C12_Witness ==
    /\ op = "Fht::fht"
    /\ ty = "f64"
    /\ pre.input.len = ToUsize(4)
    /\ Len(ffi) = 1
    /\ ffi[1].fn = "fht_double_oop"
    /\ ffi[1].log_n = 2
    /\ ffi[1].lens = <<ToUsize(4), ToUsize(4)>>

\* C13: once validation has succeeded the call returns Ok(()) if and only if
\* the engine returned status 0; any nonzero status c reaches the caller as
\* Err(InternalError(c)) with exactly that code, the engine is not called
\* again, and no other error kind stands in for it.
C13_StatusPropagated ==
    (op \in {"Fht::fht_inplace", "Fht::fht"} /\ ~ValidationError(ret))
        => /\ Len(ffi) = 1
           /\ ret = Ok <=> ffi[1].status = 0
           /\ ffi[1].status # 0 => ret = InternalError(ffi[1].status)

C13_Witness ==
    /\ op = "Fht::fht_inplace"
    /\ Len(ffi) = 1
    /\ ffi[1].status = -1
    /\ ret = InternalError(-1)

\* C14: in the out-of-place operation the length comparison comes before all
\* other validation: when input.len() != output.len() the result is always
\* Err(InvalidSize(output.len())), carrying the destination length, whatever
\* the source length is (zero, not a power of two, above 2^30) and even when
\* the destination length is itself a valid power of two.
C14_MismatchFirst ==
    (op = "Fht::fht" /\ pre.input.len # pre.output.len)
        => ret = InvalidSize(pre.output.len)

C14_Witness ==
    /\ op = "Fht::fht"
    /\ pre.input.len = Pow2(MaxLogN + 1)
    /\ pre.output.len = ToUsize(4)
    /\ ret = InvalidSize(ToUsize(4))

\* the call of thread t run alone, from the buffers it started with
Alone(t) ==
    LET th == threads[t] IN
    IF th.mode = "inplace"
    THEN LET r == fht_inplace(ThreadType(t), th.buf0, th.fate[1], th.fate[2])
         IN [ret |-> r.ret, src |-> th.src0, buf |-> r.data]
    ELSE LET r == fht(ThreadType(t), th.src0, th.buf0, th.fate[1], th.fate[2])
         IN [ret |-> r.ret, src |-> r.input, buf |-> r.output]

\* C11: the engine holds no shared mutable state, so under any interleaving
\* of concurrent fht_inplace / fht calls on pairwise disjoint buffers each call
\* ends with the result value and the buffer contents it has when run alone.
C11_Isolation ==
    \A t \in DOMAIN threads :
        threads[t].pc = "done"
            => /\ threads[t].ret = Alone(t).ret
               /\ threads[t].buf = Alone(t).buf
               /\ threads[t].src = Alone(t).src

\* thread 1 has completed a transform of length 4 while thread 2 is part of
\* the way through an out-of-place transform of length 8
C11_Witness ==
    /\ DOMAIN threads = Threads
    /\ threads[1].pc = "done"
    /\ threads[1].mode = "inplace"
    /\ threads[1].ret = Ok
    /\ threads[1].buf0.elems = <<1, 2, 3, 4>>
    /\ threads[1].buf.elems = <<10, -2, -4, 0>>
    /\ threads[2].pc = "engine"
    /\ threads[2].mode = "oop"
    /\ threads[2].src.elems = <<1, 2, 3, 4, 5, 6, 7, 8>>
    /\ threads[2].arg = 3
    /\ Len(threads[2].phases) = 1
    /\ threads[2].buf # threads[2].buf0

====
